---- MODULE Spec2Model ----
(***************************************************************************)
(* odfuzz: QueryGroup, FilterQuery (the $filter grammar generator), Option *)
(* (the expression graph), Stack and FilterOptionBuilder (the renderer),   *)
(* FilterFunctionsGroup and the per-category function wrappers.            *)
(*                                                                         *)
(* Python dictionaries are records; a key that is not in the dictionary    *)
(* is the value Absent (ids) or "" (strings).  Strings are sequences of    *)
(* tokens.  random.random() < 0.5 is a BOOLEAN chosen with \E; a weighted  *)
(* choice walks the weight table with a random percentage.                 *)
(***************************************************************************)
EXTENDS Integers, Sequences, FiniteSets, TLC

VARIABLES
    entity_set,            \* QueryGroup._entity_set: the schema's entity set
    restrictions,          \* QueryGroup._restrictions (NoRestrictions is None)
    query_options_list,    \* QueryGroup._query_options_list
    query_filter_required, \* QueryGroup._query_filter_required
    fq_entity,             \* FilterQuery._entity_set.entity_type.proprties()
    functions,             \* FilterQuery._functions.group (FilterFunctionsGroup._group)
    class_methods,         \* func_* attributes of the three wrapper classes
    ctor_error,            \* exception raised by the constructors, "" if none
    recursion_depth,       \* FilterQuery._recursion_depth
    finalizing_groups,     \* FilterQuery._finalizing_groups
    right_part,            \* FilterQuery._right_part
    option,                \* FilterQuery._option (Option: parts, logicals, groups)
    groups_stack,          \* FilterQuery._groups_stack (ids of the stacked groups)
    option_string,         \* FilterQuery._option_string
    pc,                    \* position of the generate() call
    frames,                \* activations of _noterm_child/_generate_child_group awaiting a return
    outcome,               \* how the last generate() ended: "", "ok" or an exception name
    budget,                \* Parts one generate() call may commit to (model bound)
    calls,                 \* generate() calls made so far
    spare,                 \* Parts the current call may still commit to
    nextId,                \* the least number no id drawn so far was given
    mutated,               \* edits made to the returned graph after generate()
    builder,               \* the current FilterOptionBuilder
    results,               \* what the build() calls on the current graph returned
    lastOptions,           \* what the last QueryGroup.random_options() returned
    option_obj,            \* the identity of the Option object FilterQuery._option names
    kept,                  \* the returned graph the caller's variable holds, if any
    heap,                  \* Option objects the caller holds that FilterQuery._option no longer names
    caller_keeps,          \* whether the caller stores returned graphs in a variable
    calls_wanted           \* generate() calls the caller makes on the FilterQuery

vars == <<entity_set, restrictions, query_options_list, query_filter_required,
          fq_entity, functions, class_methods, ctor_error, recursion_depth,
          finalizing_groups, right_part, option, groups_stack, option_string,
          pc, frames, outcome, budget, calls, spare, nextId, mutated, builder,
          results, lastOptions, option_obj, kept, heap, caller_keeps,
          calls_wanted>>

callerVars == <<option_obj, kept, heap, caller_keeps>>

qgVars == <<entity_set, restrictions, query_options_list, query_filter_required,
            fq_entity, functions, class_methods, ctor_error, budget,
            calls_wanted>>
genVars == <<recursion_depth, finalizing_groups, right_part, option,
             groups_stack, option_string>>
buildVars == <<mutated, builder, results>>

----------------------------------------------------------------------------
(* Bounds of the model *)

\* generate() calls made on one FilterQuery
MaxCalls == 2
\* Part nodes one generate() call may create over an entity with a single
\* function of two operators and two literals
MaxParts == 3
\* the same over an entity with a larger function catalog
MaxFuncParts == 1
\* Parts a generate() call may commit to while the caller holds a graph, whose
\* ids every draw of the call may repeat
MaxCallParts == 2
\* the same in the runs that render groups nested in groups
MaxNestParts == 4
\* build() calls recorded per graph
MaxBuilds == 3
\* Part nodes of a returned graph that is edited
MaxMutParts == 2
\* Part nodes one generate() call may reserve over an entity without function
\* categories, where the first element raises
MaxDeepParts == 6
\* Part nodes one generate() call may create over an entity with an excluded
\* property
MaxPropParts == 3
\* edits made to one returned graph
MaxMutations == 2
\* activations the renderer may nest before Python's RecursionError
MaxRenderDepth == 40

(* Program constants, as percentages where the source has probabilities *)
RECURSION_LIMIT == 3
FUNCTION_WEIGHT == 30

FILTER == "$filter"
SEARCH == "search"
TOP == "$top"
SKIP == "$skip"

LOGICAL_OPERATORS == << <<"and", 50>>, <<"or", 50>> >>
BOOLEAN_OPERATORS == << <<"eq", 50>>, <<"ne", 50>> >>
EXPRESSION_OPERATORS == << <<"eq", 30>>, <<"ne", 30>>, <<"gt", 10>>,
                           <<"ge", 10>>, <<"lt", 10>>, <<"le", 10>> >>
\* imported by monkey.py; the restricted comparison set of interval properties
INTERVAL_OPERATORS == << <<"le", 50>>, <<"ge", 50>> >>

Absent == 0
QueryOptionNames == {FILTER, SEARCH, TOP, SKIP}

\* restrictions is None; otherwise: per option the excluded entity names
\* (exclude.$E_ALL$), and for $filter the excluded property names of this
\* entity set and the excluded function names (exclude[$F_ALL$])
NoRestrictions == [none |-> TRUE, entities |-> [o \in QueryOptionNames |-> {}],
                   proprties |-> {}, funcs |-> <<>>]

\* random.random() as a percentage: one point of every interval of five
\* percent, so that every outcome of a draw against FUNCTION_WEIGHT or a
\* weight table is drawn.  The points lie strictly between the multiples of
\* five, where the weights lie: weighted_random subtracts floats, and for a
\* number on a boundary the rounding of the subtraction decides the value
\* (0.7 - 0.3 - 0.3 < 0.1), which the subtraction of percentages does not
\* reproduce
RandomPoints == {5 * k + 2 : k \in 0..19}

----------------------------------------------------------------------------
(* weighted_random *)

\* weighted_random for random.random() = random_number percent, a number of
\* RandomPoints
RECURSIVE weighted_random_at(_, _)
weighted_random_at(items, random_number) ==
    IF items = <<>> THEN "None"
    ELSE IF random_number < items[1][2] THEN items[1][1]
    ELSE weighted_random_at(Tail(items), random_number - items[1][2])

weighted_random(items) == {weighted_random_at(items, r) : r \in RandomPoints}

----------------------------------------------------------------------------
(* Sequences helpers *)

Range(s) == {s[i] : i \in 1..Len(s)}
Last(s) == s[Len(s)]
Front(s) == SubSeq(s, 1, Len(s) - 1)
Reverse(s) == [i \in 1..Len(s) |-> s[Len(s) + 1 - i]]

----------------------------------------------------------------------------
(* monkey.py: what patch_proprties attaches to a property *)

\* Operators(operators) and IntervalOperators(operators_groups): the objects
\* patch_proprty_operator attaches; their only method is get_all()
Operators(operators) == [cls |-> "Operators", groups |-> <<operators>>]
IntervalOperators(operators_groups) ==
    [cls |-> "IntervalOperators", groups |-> operators_groups]

\* the methods the two classes define
OperatorsAttributes == [Operators |-> {"get_all"}, IntervalOperators |-> {"get_all"}]

\* Operators.get_all / IntervalOperators.get_all: the items of the table, of
\* one of the tables picked by random.choice
get_all(operators) == {operators.groups[i] : i \in 1..Len(operators.groups)}

\* patch_proprty_operator: the object attached as proprty.operators
patch_proprty_operator(proprty) ==
    IF proprty.filter_restriction \in {"single-value", "multi-value"}
    THEN Operators(<< <<"eq", 100>> >>)
    ELSE IF proprty.filter_restriction = "interval"
    THEN IntervalOperators(<<INTERVAL_OPERATORS, << <<"eq", 100>> >> >>)
    ELSE IF proprty.typ = "Edm.Boolean" THEN Operators(BOOLEAN_OPERATORS)
    ELSE Operators(EXPRESSION_OPERATORS)

\* str.startswith and str.endswith
startswith(string, prefix) ==
    Len(string) >= Len(prefix) /\ SubSeq(string, 1, Len(prefix)) = prefix
endswith(string, suffix) ==
    /\ Len(string) >= Len(suffix)
    /\ SubSeq(string, Len(string) - Len(suffix) + 1, Len(string)) = suffix

\* patch_proprty_generator: the type names it compares proprty.typ.name with
GeneratorTypes ==
    {"Edm.String", "Edm.DateTime", "Edm.Boolean", "Edm.Byte", "Edm.SByte",
     "Edm.Single", "Edm.Guid", "Edm.Decimal", "Edm.DateTimeOffset", "Edm.Time",
     "Edm.Binary"}

\* patch_proprty_generator: whether the property has a generate attribute
\* afterwards; a name that starts with 'Edm.Int' gets one by its ending
patch_proprty_generator(proprty) ==
    LET proprty_type == proprty.typ
    IN  \/ proprty_type \in GeneratorTypes
        \/ /\ startswith(proprty_type, "Edm.Int")
           /\ \/ endswith(proprty_type, "16")
              \/ endswith(proprty_type, "32")
              \/ endswith(proprty_type, "64")

\* odfuzz.generators.RandomGenerator: the literals a generator may return
RandomGenerator(typ) ==
    CASE typ = "Edm.Boolean" -> {"true", "false"}
      [] typ = "Edm.String" -> {"'s'"}
      [] typ = "Edm.Int32" -> {"1"}
      [] typ = "Edm.Byte" -> {"2"}
      [] typ = "Edm.Decimal" -> {"1.0m"}
      [] OTHER -> {"lit"}

----------------------------------------------------------------------------
(* The function wrappers: DateFilterFunctions, MathFilterFunctions,        *)
(* StringFilterFunctions, and the FunctionsReturnType classes              *)

DateFunctions == {"day", "hour", "minute", "month", "second", "year"}
MathFunctions == {"round", "floor", "ceiling"}
StringFunctions == {"substringof", "endswith", "startswith", "length", "indexof",
                    "replace", "substring", "tolower", "toupper", "trim", "concat"}

\* the func_* methods each wrapper class is defined with
ClassMethods == [Date |-> DateFunctions, Math |-> MathFunctions,
                 String |-> StringFunctions]

Format1(fn, a) == fn \o "(" \o a \o ")"
Format2(fn, a, b) == fn \o "(" \o a \o ", " \o b \o ")"
Format3(fn, a, b, c) == fn \o "(" \o a \o ", " \o b \o ", " \o c \o ")"

FilterFunction(proprties, params, generated_string, return_type, name) ==
    [proprties |-> proprties, params |-> params,
     generated_string |-> generated_string,
     return_type |-> return_type, name |-> name]

\* FunctionsInt / FunctionsString / FunctionsBool: operators of a return type
FunctionsOperators(return_type) ==
    IF return_type = "Edm.Boolean" THEN BOOLEAN_OPERATORS ELSE EXPRESSION_OPERATORS

\* FunctionsReturnType.generate: the operand literal of a return type
FunctionsGenerate(return_type) == RandomGenerator(return_type)

\* DateFilterFunctions.func_*: every call the method may return
DateFilterFunctions(fn, proprties) ==
    {FilterFunction(<<p.name>>, <<>>, Format1(fn, p.name), "Edm.Int32",
                    IF fn = "year" THEN "second" ELSE fn) : p \in Range(proprties)}

\* MathFilterFunctions.func_*
MathFilterFunctions(fn, proprties) ==
    {FilterFunction(<<p.name>>, <<>>, Format1(fn, p.name), "Edm.Int32", fn)
        : p \in Range(proprties)}

\* StringFilterFunctions.func_*
StringFilterFunctions(fn, proprties) ==
    LET P == Range(proprties)
        Str == RandomGenerator("Edm.String")
        Byte == RandomGenerator("Edm.Byte")
    IN  CASE fn \in {"substringof", "endswith", "startswith"} ->
               {FilterFunction(<<p.name>>, <<v>>, Format2(fn, p.name, v),
                               "Edm.Boolean", fn)
                   : <<p, v>> \in P \X Str}
          [] fn = "length" ->
               {FilterFunction(<<p.name>>, <<v>>, Format1(fn, p.name), "Edm.Int32", fn)
                   : <<p, v>> \in P \X Str}
          [] fn = "indexof" ->
               {FilterFunction(<<p.name>>, <<v>>, Format2(fn, p.name, v),
                               "Edm.Int32", fn)
                   : <<p, v>> \in P \X Str}
          [] fn = "replace" ->
               {FilterFunction(<<t[1].name>>, <<t[2], t[3]>>,
                               Format3(fn, t[1].name, t[2], t[3]), "Edm.String", fn)
                   : t \in P \X Str \X Str}
          [] fn = "substring" ->
               {FilterFunction(<<t[1].name>>, <<t[2], t[3]>>,
                               Format3(fn, t[1].name, t[2], t[3]), "Edm.String", fn)
                   : t \in P \X Byte \X Byte}
               \cup
               {FilterFunction(<<p.name>>, <<i>>, Format2(fn, p.name, i),
                               "Edm.String", fn)
                   : <<p, i>> \in P \X Byte}
          [] fn \in {"tolower", "toupper", "trim"} ->
               {FilterFunction(<<p.name>>, <<>>, Format1(fn, p.name), "Edm.String", fn)
                   : p \in P}
          [] fn = "concat" ->
               {FilterFunction(<<p.name>>, <<v>>, Format2(fn, p.name, v),
                               "Edm.String", fn)
                   : <<p, v>> \in P \X Str}
               \cup
               {FilterFunction(<<p.name, p2.name>>, <<>>,
                               Format2(fn, p.name, p2.name), "Edm.String", fn)
                   : <<p, p2>> \in P \X P}

\* function_call(functions_wrapper): a method of class cls called on a wrapper
function_call(cls, fn, proprties) ==
    CASE cls = "Date" -> DateFilterFunctions(fn, proprties)
      [] cls = "Math" -> MathFilterFunctions(fn, proprties)
      [] cls = "String" -> StringFilterFunctions(fn, proprties)

\* get_methods_dict: the func_* names of a class (or of an instance of it)
get_methods_dict(methods, cls) == methods[cls]

----------------------------------------------------------------------------
(* FilterFunctionsGroup *)

\* dict.setdefault(key, cls()).add_proprty(proprty) on the group
GroupAdd(group, key, cls, proprty) ==
    IF \E i \in 1..Len(group) : group[i].key = key
    THEN [i \in 1..Len(group) |->
            IF group[i].key = key
            THEN [group[i] EXCEPT !.proprties = Append(@, proprty)]
            ELSE group[i]]
    ELSE Append(group, [key |-> key, cls |-> cls, proprties |-> <<proprty>>])

\* the class instantiated for a Decimal property
MathGroupClass == "Date"

RECURSIVE init_functions_group(_, _)
init_functions_group(filterable_proprties, group) ==
    IF filterable_proprties = <<>> THEN group
    ELSE LET proprty == Head(filterable_proprties)
             next ==
                 CASE proprty.typ = "Edm.String" ->
                        GroupAdd(group, "String", "String", proprty)
                   [] proprty.typ = "Edm.Date" ->
                        GroupAdd(group, "Date", "Date", proprty)
                   [] proprty.typ = "Edm.Decimal" ->
                        GroupAdd(group, "Math", MathGroupClass, proprty)
                   [] OTHER -> group
         IN  init_functions_group(Tail(filterable_proprties), next)

\* the inner loop deleting the attribute from the wrapper instance, which
\* leaves the class as it was
delete_from_wrapper_instance(st, cls, methods_dict, restricted_functions) == st

\* the inner loop of _delete_restricted_functions for one wrapper: methods_dict
\* is read once, before the loop; delattr raises if the attribute is gone
RECURSIVE delete_from_wrapper(_, _, _, _)
delete_from_wrapper(st, cls, methods_dict, restricted_functions) ==
    IF restricted_functions = <<>> \/ st.err # "" THEN st
    ELSE LET fn == Head(restricted_functions)
             next ==
                 IF fn \in methods_dict
                 THEN IF fn \in st.methods[cls]
                      THEN [st EXCEPT !.methods[cls] = @ \ {fn}]
                      ELSE [st EXCEPT !.err = "AttributeError"]
                 ELSE st
         IN  delete_from_wrapper(next, cls, methods_dict, Tail(restricted_functions))

RECURSIVE delete_restricted_functions(_, _, _)
delete_restricted_functions(st, group, restricted_functions) ==
    IF group = <<>> \/ st.err # "" THEN st
    ELSE LET cls == Head(group).cls
         IN  delete_restricted_functions(
                 delete_from_wrapper(st, cls, get_methods_dict(st.methods, cls),
                                     restricted_functions),
                 Tail(group), restricted_functions)

\* _apply_restrictions
apply_restrictions(methods, group, exclude_functions) ==
    IF exclude_functions # <<>>
    THEN delete_restricted_functions([methods |-> methods, err |-> ""], group,
                                     exclude_functions)
    ELSE [methods |-> methods, err |-> ""]

\* FilterFunctionsGroup.__init__: the group, the classes' methods afterwards,
\* and the exception raised, if any
FilterFunctionsGroup(filterable_proprties, restr, methods) ==
    LET group == init_functions_group(filterable_proprties, <<>>)
        st == IF group # <<>> /\ ~restr.none
              THEN apply_restrictions(methods, group, restr.funcs)
              ELSE [methods |-> methods, err |-> ""]
    IN  [group |-> group, methods |-> st.methods, err |-> st.err]

----------------------------------------------------------------------------
(* Option: the expression graph, and Stack *)

NewPart(id) == [id |-> id, left_id |-> Absent, right_id |-> Absent, name |-> "",
                operator |-> "", operand |-> "", func |-> "",
                proprties |-> <<>>, params |-> <<>>]
NewLogical(id) == [id |-> id, name |-> "", left_id |-> Absent, right_id |-> Absent,
                   group_id |-> Absent]
NewGroup(id) == [id |-> id, logicals |-> <<>>, left_id |-> Absent, right_id |-> Absent]

\* Option.__init__
EmptyOption == [parts |-> <<>>, logicals |-> <<>>, groups |-> <<>>]

\* no Option object but the one FilterQuery._option names is held
NoObjects == [o \in {} |-> EmptyOption]

add_part(opt, id) == [opt EXCEPT !.parts = Append(@, NewPart(id))]
add_logical(opt, id) == [opt EXCEPT !.logicals = Append(@, NewLogical(id))]
add_group(opt, id) == [opt EXCEPT !.groups = Append(@, NewGroup(id))]

\* the first node of a list with this id, None (NoNode) when there is none
NoNode == [id |-> Absent]
ById(nodes, id) ==
    IF \E i \in 1..Len(nodes) : nodes[i].id = id
    THEN nodes[CHOOSE i \in 1..Len(nodes) :
                   nodes[i].id = id /\ \A j \in 1..(i - 1) : nodes[j].id # id]
    ELSE NoNode
logical_by_id(opt, id_logical) == ById(opt.logicals, id_logical)
part_by_id(opt, id_part) == ById(opt.parts, id_part)
group_by_id(opt, id_group) == ById(opt.groups, id_group)

reverse_logicals(opt) == [opt EXCEPT !.logicals = Reverse(@)]

\* an assignment through a reference to a group dictionary, which the
\* stack and Option.groups share
AppendGroupLogical(opt, gid, lid) ==
    [opt EXCEPT !.groups = [i \in 1..Len(@) |->
        IF @[i].id = gid THEN [@[i] EXCEPT !.logicals = Append(@, lid)] ELSE @[i]]]
SetGroupRight(opt, gid, lid) ==
    [opt EXCEPT !.groups = [i \in 1..Len(@) |->
        IF @[i].id = gid THEN [@[i] EXCEPT !.right_id = lid] ELSE @[i]]]

\* Stack.top: the id of the top group, Absent for None
StackTop(stack) == IF stack = <<>> THEN Absent ELSE Last(stack)
\* Stack.pop(n): the stack afterwards and the last element popped (Absent
\* for None: _pop_one on an empty stack)
RECURSIVE StackPop(_, _, _)
StackPop(stack, elements_to_pop, popped) ==
    IF elements_to_pop = 0 THEN [stack |-> stack, popped |-> popped]
    ELSE IF stack = <<>> THEN StackPop(stack, elements_to_pop - 1, Absent)
    ELSE StackPop(Front(stack), elements_to_pop - 1, Last(stack))

----------------------------------------------------------------------------
(* QueryGroup: construction *)

\* _is_not_restricted
is_not_restricted(entity, restr, option_name) ==
    restr.none \/ ~(entity.name \in restr.entities[option_name])

\* _delete_restricted_proprties without the test of the restriction list
delete_only_not_filterable(entity, restr) ==
    [entity EXCEPT !.proprties =
        SelectSeq(@, LAMBDA proprty : proprty.filterable)]

\* _delete_restricted_proprties
delete_restricted_proprties(entity, restr) ==
    [entity EXCEPT !.proprties =
        SelectSeq(@, LAMBDA proprty :
            ~(proprty.name \in restr.proprties \/ ~proprty.filterable))]

\* _add_filter_option_to_list
add_filter_option_to_list(lists, entity) ==
    IF entity.requires_filter
    THEN [lists EXCEPT !.required = Append(@, FILTER)]
    ELSE [lists EXCEPT !.list = Append(@, FILTER)]

\* _init_query_type
init_query_type(lists, entity, restr, option_name, is_queryable) ==
    IF is_queryable /\ is_not_restricted(entity, restr, option_name)
    THEN [lists EXCEPT !.list = Append(@, option_name)]
    ELSE lists

\* QueryGroup.__init__ / _init_group over the classes' current methods
QueryGroup(entity, restr, methods) ==
    LET fentity == IF ~restr.none THEN delete_restricted_proprties(entity, restr)
                   ELSE entity
        has_filter == is_not_restricted(entity, restr, FILTER)
                      /\ fentity.proprties # <<>>
        ffg == IF has_filter
               THEN FilterFunctionsGroup(fentity.proprties, restr, methods)
               ELSE [group |-> <<>>, methods |-> methods, err |-> ""]
        l0 == [list |-> <<>>, required |-> <<>>]
        l1 == IF has_filter THEN add_filter_option_to_list(l0, fentity) ELSE l0
        l2 == init_query_type(l1, entity, restr, SEARCH, entity.searchable)
        l3 == init_query_type(l2, entity, restr, TOP, entity.topable)
        l4 == init_query_type(l3, entity, restr, SKIP, entity.pageable)
    IN  [has_filter |-> has_filter /\ ffg.err = "",
         fq_entity |-> IF has_filter THEN fentity.proprties ELSE <<>>,
         group |-> ffg.group, methods |-> ffg.methods, err |-> ffg.err,
         list |-> IF ffg.err = "" THEN l4.list ELSE <<>>,
         required |-> IF ffg.err = "" THEN l4.required ELSE <<>>]

\* a FilterQuery exists
HasFilterQuery == fq_entity # <<>> /\ ctor_error = ""

----------------------------------------------------------------------------
(* FilterQuery: the pieces of generate() *)

SetLastLogical(opt, field, value) ==
    [opt EXCEPT !.logicals[Len(opt.logicals)] =
        IF field = "right_id" THEN [@ EXCEPT !.right_id = value]
        ELSE IF field = "left_id" THEN [@ EXCEPT !.left_id = value]
        ELSE IF field = "group_id" THEN [@ EXCEPT !.group_id = value]
        ELSE [@ EXCEPT !.name = value]]

\* an exception raised while the Part is filled in
ElementError(err) == [err |-> err, name |-> "", operator |-> "", operand |-> "",
                      proprties |-> <<>>, params |-> <<>>, func |-> ""]

\* _generate_function: every Part content it may produce, or the exception
generate_function(group, methods) ==
    IF group = <<>> THEN {ElementError("IndexError")}
    ELSE UNION {
        LET functions_dict == get_methods_dict(methods, functions_wrapper.cls)
        IN  IF functions_dict = {} THEN {ElementError("IndexError")}
            ELSE UNION { UNION { UNION {
                    {[err |-> IF operator = "None" THEN "TypeError" ELSE "",
                      name |-> generated_function.generated_string,
                      operator |-> operator, operand |-> operand,
                      proprties |-> generated_function.proprties,
                      params |-> generated_function.params,
                      func |-> generated_function.name]
                        : operand \in FunctionsGenerate(generated_function.return_type)}
                    : operator \in weighted_random(
                          FunctionsOperators(generated_function.return_type))}
                    : generated_function \in
                          function_call(functions_wrapper.cls, fn,
                                        functions_wrapper.proprties)}
                    : fn \in functions_dict}
        : functions_wrapper \in Range(group)}

\* _generate_proprty: every Part content it may produce, or the exception.
\* proprty.operators.items() is looked up on the object patch_proprty_operator
\* attached; the statements after it run only when that object has items
generate_proprty(proprties) ==
    IF proprties = <<>> THEN {ElementError("IndexError")}
    ELSE UNION {
            LET operators == patch_proprty_operator(proprty)
            IN  IF "items" \notin OperatorsAttributes[operators.cls]
                THEN {ElementError("AttributeError")}
                ELSE UNION { UNION {
                    IF ~patch_proprty_generator(proprty)
                    THEN {ElementError("AttributeError")}
                    ELSE IF operator = "None" THEN {ElementError("TypeError")}
                    ELSE {[err |-> "", name |-> proprty.name, operator |-> operator,
                           operand |-> operand, proprties |-> <<>>, params |-> <<>>,
                           func |-> ""] : operand \in RandomGenerator(proprty.typ)}
                    : operator \in weighted_random(items)}
                    : items \in {operators.groups[1]}}
        : proprty \in Range(proprties)}

\* _update_function_part / _update_proprty_part
update_part(opt, e) ==
    [opt EXCEPT !.parts[Len(opt.parts)] =
        [@ EXCEPT !.name = e.name, !.operator = e.operator, !.operand = e.operand,
                  !.proprties = e.proprties, !.params = e.params, !.func = e.func]]

\* _update_right_logical_references
update_right_logical_references(opt, stack) ==
    LET last_logical == Last(opt.logicals)
        last_part == Last(opt.parts)
        last_group == StackTop(stack)
        o1 == SetLastLogical(opt, "right_id", last_part.id)
        o2 == [o1 EXCEPT !.parts[Len(o1.parts)].left_id = last_logical.id]
    IN  IF last_group # Absent
        THEN SetLastLogical(AppendGroupLogical(o2, last_group, last_logical.id),
                            "group_id", last_group)
        ELSE o2

\* _update_group_references without the append to the enclosing group
update_group_links_only(opt, stack) ==
    LET last_logical == Last(opt.logicals)
        last_group == Last(opt.groups)
        o1 == SetLastLogical(opt, "right_id", last_group.id)
    IN  [o1 EXCEPT !.groups[Len(o1.groups)].left_id = last_logical.id]

\* _update_group_references
update_group_references(opt, stack) ==
    LET last_logical == Last(opt.logicals)
        last_group == Last(opt.groups)
        stacked_group == StackTop(stack)
        o1 == SetLastLogical(opt, "right_id", last_group.id)
        o2 == [o1 EXCEPT !.groups[Len(o1.groups)].left_id = last_logical.id]
    IN  IF stacked_group # Absent
        THEN AppendGroupLogical(o2, stacked_group, last_logical.id)
        ELSE o2

\* _update_left_logical_references without the Part's link back to the Logical
update_left_logical_only(opt, stack) ==
    LET stacked_group == StackTop(stack)
        o1 == IF stacked_group # Absent
              THEN SetLastLogical(opt, "group_id", stacked_group) ELSE opt
    IN  SetLastLogical(o1, "left_id", Last(o1.parts).id)

\* _update_left_logical_references
update_left_logical_references(opt, stack) ==
    LET last_logical == Last(opt.logicals)
        stacked_group == StackTop(stack)
        o1 == IF stacked_group # Absent
              THEN SetLastLogical(opt, "group_id", stacked_group) ELSE opt
        o2 == SetLastLogical(o1, "left_id", Last(o1.parts).id)
    IN  [o2 EXCEPT !.parts[Len(o2.parts)].right_id = last_logical.id]

\* no FilterOptionBuilder yet
NoBuilder == [exists |-> FALSE, calls |-> 0, option_string |-> <<>>,
              used_logicals |-> <<>>]

\* the coin of _noterm_expression and _noterm_parent: stop expanding
Terminal(coin_below_half, depth) == coin_below_half \/ depth > RECURSION_LIMIT

----------------------------------------------------------------------------
(* FilterQuery.generate(), one action per function *)

Running == pc \notin {"idle", "done", "error"}

\* uuid.UUID(int=random.getrandbits(128), version=4), drawn for every node
\* from the generator of the random module, which the caller shares and may
\* seed: the id may be any number.  An id matters only through equality with
\* other ids, so the draw is one of the numbers given before (those below
\* next) or a number given to no node so far (next)
getrandbits(next) == 1..next

\* next after the draw of id
drawn(next, id) == IF id = next THEN next + 1 ELSE next

\* the ids of the Parts, Logicals and Groups of a graph
NodeIds(opt) ==
    {opt.parts[i].id : i \in 1..Len(opt.parts)}
    \cup {opt.logicals[i].id : i \in 1..Len(opt.logicals)}
    \cup {opt.groups[i].id : i \in 1..Len(opt.groups)}

\* the ids a node made by generate() may be given.  The draws of one call
\* follow one another in the sequence of one generator, nothing reseeds it in
\* between, and they are taken to differ (128 bits each): the id is none of
\* the ids of the nodes the call has made.  It may be the id of a node of a
\* graph returned before
getrandbits_in_generate(opt, next) == getrandbits(next) \ NodeIds(opt)

\* the numbers the ids of the graphs the caller holds leave free
undrawn(held_ids) ==
    IF held_ids = {} THEN 1
    ELSE 1 + CHOOSE h \in held_ids : \A other \in held_ids : other <= h

\* _init_variables with the assignment of a new Option() left out and the
\* lists of the Option at hand emptied instead
init_variables_clearing_in_place(obj) ==
    [recursion_depth |-> 0, finalizing_groups |-> 0, right_part |-> FALSE,
     option |-> EmptyOption, option_obj |-> obj,
     groups_stack |-> <<>>, option_string |-> <<>>]

\* _init_variables: the attributes of the FilterQuery afterwards; Option()
\* is a new object (obj names the Option at hand), with three new empty lists
init_variables(obj) ==
    [recursion_depth |-> 0, finalizing_groups |-> 0, right_part |-> FALSE,
     option |-> EmptyOption, option_obj |-> obj + 1,
     groups_stack |-> <<>>, option_string |-> <<>>]

\* generate(): _init_variables, then the call of _noterm_expression.  An
\* Option the caller holds stays in memory when _option names another one
Generate ==
    /\ pc \in {"idle", "done", "error"}
    /\ HasFilterQuery
    /\ calls < calls_wanted
    /\ budget >= 1
    /\ calls' = calls + 1
    /\ LET self == init_variables(option_obj)
           held == {kept[i].obj : i \in 1..Len(kept)} \ {self.option_obj}
       IN  /\ recursion_depth' = self.recursion_depth
           /\ finalizing_groups' = self.finalizing_groups
           /\ right_part' = self.right_part
           /\ option' = self.option
           /\ option_obj' = self.option_obj
           /\ groups_stack' = self.groups_stack
           /\ option_string' = self.option_string
           /\ heap' = [o \in held |-> IF o = option_obj THEN option ELSE heap[o]]
    /\ pc' = "expression"
    /\ frames' = <<>>
    /\ outcome' = ""
    /\ spare' = (IF kept = <<>> \/ budget <= MaxCallParts THEN budget
                 ELSE MaxCallParts) - 1
    /\ nextId' = undrawn(UNION {NodeIds(kept[i].option) : i \in 1..Len(kept)})
    /\ mutated' = 0
    /\ builder' = NoBuilder
    /\ results' = <<>>
    /\ UNCHANGED <<qgVars, lastOptions, kept, caller_keeps>>

NotermExpression ==
    /\ pc = "expression"
    /\ recursion_depth' = recursion_depth + 1
    /\ \E coin \in BOOLEAN :
          IF Terminal(coin, recursion_depth')
          THEN pc' = "element"
          ELSE spare >= 1 /\ pc' = "child"
    /\ UNCHANGED <<qgVars, finalizing_groups, right_part, option, groups_stack,
                   option_string, frames, outcome, spare, nextId, buildVars,
                   calls, lastOptions, callerVars>>

NotermParent ==
    /\ pc = "parent"
    /\ \E coin \in BOOLEAN :
          IF Terminal(coin, recursion_depth)
          THEN pc' = "expression"
          ELSE spare >= 1 /\ pc' = "generate_child"
    /\ UNCHANGED <<qgVars, genVars, frames, outcome, spare, nextId, buildVars,
                   calls, lastOptions, callerVars>>

GenerateChild ==
    /\ pc = "generate_child"
    /\ \E coin \in BOOLEAN : pc' = IF coin THEN "child" ELSE "child_group"
    /\ UNCHANGED <<qgVars, genVars, frames, outcome, spare, nextId, buildVars,
                   calls, lastOptions, callerVars>>

\* _generate_child_group up to its call of _noterm_child
GenerateChildGroup ==
    /\ pc = "child_group"
    /\ \E group_id \in getrandbits_in_generate(option, nextId) :
          LET o1 == add_group(option, group_id)
          IN  /\ option' = IF right_part
                           THEN update_group_references(o1, groups_stack)
                           ELSE o1
              /\ groups_stack' = Append(groups_stack, group_id)
              /\ nextId' = drawn(nextId, group_id)
    /\ option_string' = Append(option_string, "(")
    /\ right_part' = FALSE
    /\ frames' = Append(frames, "group")
    /\ pc' = "child"
    /\ UNCHANGED <<qgVars, recursion_depth, finalizing_groups, outcome, spare,
                   buildVars, calls, lastOptions, callerVars>>

\* _generate_child_group after _noterm_child returned
GenerateChildGroupClose ==
    /\ pc = "return"
    /\ frames # <<>> /\ Last(frames) = "group"
    /\ finalizing_groups' = finalizing_groups + 1
    /\ option_string' = Append(option_string, ")")
    /\ frames' = Front(frames)
    /\ UNCHANGED <<qgVars, recursion_depth, right_part, option, groups_stack, pc,
                   outcome, spare, nextId, buildVars, calls, lastOptions,
                   callerVars>>

\* _noterm_child: its first call of _noterm_parent
NotermChild ==
    /\ pc = "child"
    /\ spare' = spare - 1
    /\ frames' = Append(frames, "child1")
    /\ pc' = "parent"
    /\ UNCHANGED <<qgVars, genVars, outcome, nextId, buildVars, calls, lastOptions,
                   callerVars>>

\* _noterm_logical, then the second call of _noterm_parent
NotermLogical ==
    /\ pc = "return"
    /\ frames # <<>> /\ Last(frames) = "child1"
    /\ \E operator \in weighted_random(LOGICAL_OPERATORS) :
       \E logical_id \in getrandbits_in_generate(option, nextId) :
          LET o1 == SetLastLogical(add_logical(option, logical_id), "name", operator)
              pop == StackPop(groups_stack, finalizing_groups, Absent)
          IN  IF operator = "None"
              THEN /\ pc' = "error" /\ outcome' = "TypeError"
                   /\ UNCHANGED <<option, option_string, groups_stack,
                                  finalizing_groups, right_part, frames, nextId>>
              ELSE IF finalizing_groups # 0 /\ pop.popped = Absent
              THEN /\ option' = o1
                   /\ nextId' = drawn(nextId, logical_id)
                   /\ option_string' = option_string \o <<" ", operator, " ">>
                   /\ groups_stack' = pop.stack
                   /\ finalizing_groups' = 0
                   /\ pc' = "error" /\ outcome' = "TypeError"
                   /\ UNCHANGED <<right_part, frames>>
              ELSE /\ option_string' = option_string \o <<" ", operator, " ">>
                   /\ nextId' = drawn(nextId, logical_id)
                   /\ IF finalizing_groups # 0
                      THEN /\ option' = SetGroupRight(
                                  SetLastLogical(o1, "left_id", pop.popped),
                                  pop.popped, logical_id)
                           /\ groups_stack' = pop.stack
                      ELSE /\ option' = update_left_logical_references(o1, groups_stack)
                           /\ UNCHANGED groups_stack
                   /\ finalizing_groups' = 0
                   /\ right_part' = TRUE
                   /\ frames' = Append(Front(frames), "child2")
                   /\ pc' = "parent"
                   /\ UNCHANGED outcome
    /\ UNCHANGED <<qgVars, recursion_depth, spare, buildVars, calls, lastOptions,
                   callerVars>>

\* _noterm_child returns after its second _noterm_parent
NotermChildReturn ==
    /\ pc = "return"
    /\ frames # <<>> /\ Last(frames) = "child2"
    /\ frames' = Front(frames)
    /\ UNCHANGED <<qgVars, genVars, pc, outcome, spare, nextId, buildVars,
                   calls, lastOptions, callerVars>>

\* _generate_element
GenerateElement ==
    /\ pc = "element"
    /\ \E use_function \in {r < FUNCTION_WEIGHT : r \in RandomPoints} :
       \E e \in (IF use_function THEN generate_function(functions, class_methods)
                 ELSE generate_proprty(fq_entity)) :
       \E part_id \in getrandbits_in_generate(option, nextId) :
          LET o1 == add_part(option, part_id)
          IN  IF e.err # ""
              THEN /\ option' = o1
                   /\ nextId' = drawn(nextId, part_id)
                   /\ pc' = "error"
                   /\ outcome' = e.err
                   /\ UNCHANGED <<option_string, right_part>>
              ELSE /\ nextId' = drawn(nextId, part_id)
                   /\ option' = IF right_part
                                THEN update_right_logical_references(
                                         update_part(o1, e), groups_stack)
                                ELSE update_part(o1, e)
                   /\ option_string' =
                          option_string \o <<e.name, " ", e.operator, " ", e.operand>>
                   /\ right_part' = FALSE
                   /\ pc' = "return"
                   /\ UNCHANGED outcome
    /\ UNCHANGED <<qgVars, recursion_depth, finalizing_groups, groups_stack,
                   frames, spare, buildVars, calls, lastOptions, callerVars>>

\* generate() after _noterm_expression returned: reverse_logicals, return
GenerateReturn ==
    /\ pc = "return"
    /\ frames = <<>>
    /\ option' = reverse_logicals(option)
    /\ pc' = "done"
    /\ outcome' = "ok"
    /\ \/ kept' = kept /\ heap' = heap
       \/ /\ caller_keeps
          /\ kept' = <<[obj |-> option_obj, call |-> calls, option |-> option']>>
          /\ heap' = NoObjects
    /\ UNCHANGED <<qgVars, recursion_depth, finalizing_groups, right_part,
                   groups_stack, option_string, frames, spare, nextId, buildVars,
                   calls, lastOptions, option_obj, caller_keeps>>

----------------------------------------------------------------------------
(* FilterOptionBuilder.  Every function returns the string it built, the   *)
(* list _used_logicals afterwards, the exception it raised ("" if none)    *)
(* and, for a lookup that found no node, the id that was looked up.        *)

Built(s, used, err, missing) == [s |-> s, used |-> used, err |-> err, missing |-> missing]
Raised(used, err, missing) == Built(<<>>, used, err, missing)

IsNone(node) == node.id = Absent

\* build_filter_part
build_filter_part(part) == <<part.name, " ", part.operator, " ", part.operand>>

\* the value of an expression, computed once and handed on
Bind(value, rest(_)) == CHOOSE y \in {rest(v) : v \in {value}} : TRUE

\* a + ' ' + logical['name'] + ' ' + b
Joined(a, logical, b) == a \o <<" ", logical.name, " ">> \o b

RECURSIVE build_left(_, _, _, _)
RECURSIVE build_right(_, _, _, _)
RECURSIVE build_by_id(_, _, _, _, _)
RECURSIVE build_surroundings(_, _, _, _, _, _)
RECURSIVE build_group(_, _, _, _)

\* _build_left
build_left(opt, used, part, depth) ==
    IF part.left_id = Absent THEN Raised(used, "KeyError", Absent)
    ELSE build_by_id(opt, used, part.left_id, TRUE, depth)

\* _build_right
build_right(opt, used, part, depth) ==
    IF part.right_id = Absent THEN Raised(used, "KeyError", Absent)
    ELSE build_by_id(opt, used, part.right_id, FALSE, depth)

\* left + ' ' + logical['name'] + ' ' + right, both sides built from the
\* logical's links, left first
build_both(opt, used, logical, depth) ==
    Bind(build_left(opt, used, logical, depth), LAMBDA l :
        IF l.err # "" THEN l
        ELSE Bind(build_right(opt, l.used, logical, depth), LAMBDA r :
            IF r.err # "" THEN r
            ELSE Built(Joined(l.s, logical, r.s), r.used, "", Absent)))

\* _build_by_id
build_by_id(opt, used, part_id, skip_left, depth) ==
    IF depth = 0 THEN Raised(used, "RecursionError", Absent)
    ELSE LET part == part_by_id(opt, part_id)
             group == group_by_id(opt, part_id)
         IN  IF ~IsNone(part)
             THEN IF part.name = "" THEN Raised(used, "KeyError", Absent)
                  ELSE build_surroundings(opt, used, skip_left, part,
                                          build_filter_part(part), depth - 1)
             ELSE IF IsNone(group) THEN Raised(used, "TypeError", part_id)
             ELSE Bind(build_group(opt, used, group, depth - 1), LAMBDA g :
                      IF g.err # "" THEN g
                      ELSE build_surroundings(opt, g.used, skip_left, group, g.s,
                                              depth - 1))

\* _build_surroundings
build_surroundings(opt, used, skip_left, part, generated_string, depth) ==
    IF depth = 0 THEN Raised(used, "RecursionError", Absent)
    ELSE IF skip_left /\ part.left_id # Absent
    THEN LET left_logical == logical_by_id(opt, part.left_id)
         IN  IF IsNone(left_logical) THEN Raised(used, "TypeError", part.left_id)
             ELSE Bind(build_left(opt, Append(used, left_logical.id), left_logical,
                                  depth - 1), LAMBDA l :
                      IF l.err # "" THEN l
                      ELSE Built(Joined(l.s, left_logical, generated_string),
                                 l.used, "", Absent))
    ELSE IF ~skip_left /\ part.right_id # Absent
    THEN LET right_logical == logical_by_id(opt, part.right_id)
         IN  IF IsNone(right_logical) THEN Raised(used, "TypeError", part.right_id)
             ELSE Bind(build_right(opt, Append(used, right_logical.id),
                                   right_logical, depth - 1), LAMBDA r :
                      IF r.err # "" THEN r
                      ELSE Built(Joined(generated_string, right_logical, r.s),
                                 r.used, "", Absent))
    ELSE Built(generated_string, used, "", Absent)

\* _build_group with the closing parenthesis left out
build_group_unclosed(opt, used, group, depth) ==
    IF depth = 0 THEN Raised(used, "RecursionError", Absent)
    ELSE IF group.logicals = <<>> THEN Raised(used, "IndexError", Absent)
    ELSE LET logical == logical_by_id(opt, group.logicals[1])
         IN  IF IsNone(logical) THEN Raised(used, "TypeError", group.logicals[1])
             ELSE Bind(build_both(opt, Append(used, logical.id), logical, depth - 1),
                       LAMBDA b :
                          IF b.err # "" THEN b
                          ELSE Built(<<"(">> \o b.s, b.used, "", Absent))

\* _build_group
build_group(opt, used, group, depth) ==
    IF depth = 0 THEN Raised(used, "RecursionError", Absent)
    ELSE IF group.logicals = <<>> THEN Raised(used, "IndexError", Absent)
    ELSE LET logical == logical_by_id(opt, group.logicals[1])
         IN  IF IsNone(logical) THEN Raised(used, "TypeError", group.logicals[1])
             ELSE Bind(build_both(opt, Append(used, logical.id), logical, depth - 1),
                       LAMBDA b :
                          IF b.err # "" THEN b
                          ELSE Built(<<"(">> \o b.s \o <<")">>, b.used, "", Absent))

\* _build_surroundings called by _build_first_group on the string g built so
\* far; s is self._option_string when it returns or raises
surround_first_group(opt, g, skip_left, group, depth) ==
    Bind(build_surroundings(opt, g.used, skip_left, group, g.s, depth), LAMBDA x :
        IF x.err # "" THEN [x EXCEPT !.s = g.s] ELSE x)

\* _build_first_group
build_first_group(opt, used, group_id, depth) ==
    LET group == group_by_id(opt, group_id)
    IN  IF IsNone(group) THEN Raised(used, "TypeError", group_id)
        ELSE Bind(build_group(opt, used, group, depth), LAMBDA g :
            IF g.err # "" THEN g
            ELSE Bind(IF group.left_id # Absent
                      THEN surround_first_group(opt, g, TRUE, group, depth)
                      ELSE g, LAMBDA l :
                IF l.err # "" \/ group.right_id = Absent THEN l
                ELSE surround_first_group(opt, l, FALSE, group, depth)))

\* _check_last_logical without its rule for an unconsumed last Logical
check_last_logical_skipped(opt, b, depth) == b

\* _check_last_logical joining the walk's string without parentheses
check_last_logical_unwrapped(opt, b, depth) ==
    LET logical == Last(opt.logicals)
    IN  IF logical.id \in Range(b.used) THEN b
        ELSE Bind(build_left(opt, b.used, logical, depth), LAMBDA l :
                IF l.err # "" THEN [l EXCEPT !.s = b.s]
                ELSE Built(l.s \o <<" ", logical.name, " ">> \o b.s,
                           l.used, "", Absent))

\* _check_last_logical, on the outcome b of the walk from logicals[0]
check_last_logical(opt, b, depth) ==
    LET logical == Last(opt.logicals)
    IN  IF logical.id \in Range(b.used) THEN b
        ELSE Bind(build_left(opt, b.used, logical, depth), LAMBDA l :
                IF l.err # "" THEN [l EXCEPT !.s = b.s]
                ELSE Built(l.s \o <<" ", logical.name, " ", "(">> \o b.s \o <<")">>,
                           l.used, "", Absent))

\* _build_all
build_all(opt, used, first_logical, depth) ==
    Bind(IF first_logical.group_id # Absent
         THEN build_first_group(opt, used, first_logical.group_id, depth)
         ELSE build_both(opt, Append(used, first_logical.id), first_logical, depth),
         LAMBDA b : IF b.err # "" THEN b ELSE check_last_logical(opt, b, depth))

\* build() returning nothing when the string was rendered before
build_forgets_cached(b, opt) ==
    IF b.option_string # <<>>
    THEN Built(<<>>, b.used_logicals, "", Absent)
    ELSE IF Len(opt.parts) = 1
    THEN IF Last(opt.parts).name = ""
         THEN Raised(b.used_logicals, "KeyError", Absent)
         ELSE Built(build_filter_part(Last(opt.parts)), b.used_logicals, "", Absent)
    ELSE IF opt.logicals = <<>> THEN Raised(b.used_logicals, "IndexError", Absent)
    ELSE build_all(opt, b.used_logicals, opt.logicals[1], MaxRenderDepth)

\* FilterOptionBuilder.build: the builder afterwards and what the call
\* returned (s) or raised (err)
build(b, opt) ==
    IF b.option_string # <<>>
    THEN Built(b.option_string, b.used_logicals, "", Absent)
    ELSE IF Len(opt.parts) = 1
    THEN IF Last(opt.parts).name = ""
         THEN Raised(b.used_logicals, "KeyError", Absent)
         ELSE Built(build_filter_part(Last(opt.parts)), b.used_logicals, "", Absent)
    ELSE IF opt.logicals = <<>> THEN Raised(b.used_logicals, "IndexError", Absent)
    ELSE build_all(opt, b.used_logicals, opt.logicals[1], MaxRenderDepth)

\* FilterOptionBuilder(option)
NewBuilder ==
    /\ pc = "done"
    /\ Len(results) < MaxBuilds
    /\ builder' = [exists |-> TRUE, calls |-> 0, option_string |-> <<>>,
                   used_logicals |-> <<>>]
    /\ UNCHANGED <<qgVars, genVars, pc, frames, outcome, spare, nextId, mutated,
                   results, calls, lastOptions, callerVars>>

\* FilterOptionBuilder.build()
Build ==
    /\ pc = "done"
    /\ builder.exists
    /\ Len(results) < MaxBuilds
    /\ LET b == build(builder, option)
       IN  /\ builder' = [exists |-> TRUE, calls |-> builder.calls + 1,
                          option_string |-> b.s, used_logicals |-> b.used]
           /\ results' = Append(results,
                  [s |-> IF b.err = "" THEN b.s ELSE <<>>, err |-> b.err,
                   missing |-> b.missing, call |-> builder.calls + 1,
                   mutated |-> mutated])
    /\ UNCHANGED <<qgVars, genVars, pc, frames, outcome, spare, nextId, mutated,
                   calls, lastOptions, callerVars>>

----------------------------------------------------------------------------
(* The external mutation process: edits of a returned graph *)

RemoveAt(seq, i) == SubSeq(seq, 1, i - 1) \o SubSeq(seq, i + 1, Len(seq))

\* the holder edits a returned graph of up to MaxMutParts Parts
CanMutate ==
    /\ pc = "done"
    /\ mutated < MaxMutations
    /\ (mutated = 0 => Len(option.parts) <= MaxMutParts)

\* a Part, Logical or Group is removed from its collection
DeleteNode ==
    /\ CanMutate
    /\ \/ \E i \in 1..Len(option.parts) :
             option' = [option EXCEPT !.parts = RemoveAt(@, i)]
       \/ \E i \in 1..Len(option.logicals) :
             option' = [option EXCEPT !.logicals = RemoveAt(@, i)]
       \/ \E i \in 1..Len(option.groups) :
             option' = [option EXCEPT !.groups = RemoveAt(@, i)]
    /\ mutated' = mutated + 1
    /\ UNCHANGED <<qgVars, recursion_depth, finalizing_groups, right_part,
                   groups_stack, option_string, pc, frames, outcome, spare, nextId,
                   builder, results, calls, lastOptions, callerVars>>

\* a link key of a node is deleted
RemoveLink ==
    /\ CanMutate
    /\ \/ \E i \in 1..Len(option.parts) :
             \/ /\ option.parts[i].left_id # Absent
                /\ option' = [option EXCEPT !.parts[i].left_id = Absent]
             \/ /\ option.parts[i].right_id # Absent
                /\ option' = [option EXCEPT !.parts[i].right_id = Absent]
       \/ \E i \in 1..Len(option.logicals) :
             \/ /\ option.logicals[i].left_id # Absent
                /\ option' = [option EXCEPT !.logicals[i].left_id = Absent]
             \/ /\ option.logicals[i].right_id # Absent
                /\ option' = [option EXCEPT !.logicals[i].right_id = Absent]
             \/ /\ option.logicals[i].group_id # Absent
                /\ option' = [option EXCEPT !.logicals[i].group_id = Absent]
       \/ \E i \in 1..Len(option.groups) :
             \/ /\ option.groups[i].left_id # Absent
                /\ option' = [option EXCEPT !.groups[i].left_id = Absent]
             \/ /\ option.groups[i].right_id # Absent
                /\ option' = [option EXCEPT !.groups[i].right_id = Absent]
    /\ mutated' = mutated + 1
    /\ UNCHANGED <<qgVars, recursion_depth, finalizing_groups, right_part,
                   groups_stack, option_string, pc, frames, outcome, spare, nextId,
                   builder, results, calls, lastOptions, callerVars>>

\* the Parts and Logicals the holder of a graph may assign: the node it
\* replaces under another name, or a node with an id only
ReplacementParts(part) ==
    {[part EXCEPT !.name = "Z", !.operator = "eq", !.operand = "9",
                  !.proprties = <<>>, !.params = <<>>, !.func = ""],
     NewPart(part.id)}

ReplacementLogicals(logical) ==
    {[logical EXCEPT !.name = "xor"], NewLogical(logical.id)}

\* option.last_part = value
LastPartSetter ==
    /\ CanMutate
    /\ option.parts # <<>>
    /\ \E value \in ReplacementParts(Last(option.parts)) :
          /\ value # Last(option.parts)
          /\ option' = [option EXCEPT !.parts[Len(option.parts)] = value]
    /\ mutated' = mutated + 1
    /\ UNCHANGED <<qgVars, recursion_depth, finalizing_groups, right_part,
                   groups_stack, option_string, pc, frames, outcome, spare, nextId,
                   builder, results, calls, lastOptions, callerVars>>

\* option.last_logical = value
LastLogicalSetter ==
    /\ CanMutate
    /\ option.logicals # <<>>
    /\ \E value \in ReplacementLogicals(Last(option.logicals)) :
          /\ value # Last(option.logicals)
          /\ option' = [option EXCEPT !.logicals[Len(option.logicals)] = value]
    /\ mutated' = mutated + 1
    /\ UNCHANGED <<qgVars, recursion_depth, finalizing_groups, right_part,
                   groups_stack, option_string, pc, frames, outcome, spare, nextId,
                   builder, results, calls, lastOptions, callerVars>>

\* option.add_part(), option.add_logical() or option.add_group() called by
\* the holder of a returned graph, who may have seeded the generator since:
\* the id may be the id of a node the graph has
AddNode ==
    /\ CanMutate
    /\ \E id \in getrandbits(nextId) :
          /\ \/ option' = add_part(option, id)
             \/ option' = add_logical(option, id)
             \/ option' = add_group(option, id)
          /\ nextId' = drawn(nextId, id)
    /\ mutated' = mutated + 1
    /\ UNCHANGED <<qgVars, recursion_depth, finalizing_groups, right_part,
                   groups_stack, option_string, pc, frames, outcome, spare,
                   builder, results, calls, lastOptions, callerVars>>

\* option.reverse_logicals() called by the holder of a returned graph
ReverseLogicals ==
    /\ CanMutate
    /\ option' = reverse_logicals(option)
    /\ mutated' = mutated + 1
    /\ UNCHANGED <<qgVars, recursion_depth, finalizing_groups, right_part,
                   groups_stack, option_string, pc, frames, outcome, spare, nextId,
                   builder, results, calls, lastOptions, callerVars>>

----------------------------------------------------------------------------
(* QueryGroup.random_options *)

\* round(random.random() * list_length), random_number a percentage
\* (Python rounds a half to the even neighbour)
SampleLength(random_number, list_length) ==
    LET x == random_number * list_length
        q == x \div 100
        rem == x % 100
    IN  IF rem > 50 \/ (rem = 50 /\ q % 2 = 1) THEN q + 1 ELSE q

\* random.sample(population, k): k elements at distinct positions, in any order
RandomSample(population, k) ==
    {[i \in 1..k |-> population[pos[i]]] :
        pos \in {f \in [1..k -> 1..Len(population)] :
                    \A i, j \in 1..k : i # j => f[i] # f[j]}}

\* what random_options() may return
random_options(options_list, filter_required) ==
    UNION {
        {sample_options \o options_list
            : sample_options \in RandomSample(options_list, sample_length)}
        : sample_length \in {SampleLength(r, Len(options_list)) : r \in RandomPoints}}

RandomOptions ==
    /\ ctor_error = ""
    /\ \E returned \in random_options(query_options_list, query_filter_required) :
          lastOptions' = [called |-> TRUE, options |-> returned]
    /\ UNCHANGED <<qgVars, genVars, pc, frames, outcome, calls, spare, nextId,
                   buildVars, callerVars>>

----------------------------------------------------------------------------
(* The entity sets and restrictions the runs are made over *)

Proprty(name, typ, filterable, filter_restriction) ==
    [name |-> name, typ |-> typ, filterable |-> filterable,
     filter_restriction |-> filter_restriction]

PropN == Proprty("N", "Edm.Int32", TRUE, "single-value")
PropIsActive == Proprty("IsActive", "Edm.Boolean", TRUE, "single-value")
PropA == Proprty("A", "Edm.String", TRUE, "none")
PropD == Proprty("D", "Edm.Date", TRUE, "single-value")
PropM == Proprty("M", "Edm.Decimal", TRUE, "single-value")
PropX == Proprty("X", "Edm.Int32", FALSE, "single-value")
PropK == Proprty("K", "Edm.Int32", TRUE, "single-value")
PropB == Proprty("B", "Edm.String", TRUE, "none")
PropY == Proprty("Y", "Edm.String", FALSE, "none")
PropV == Proprty("V", "Edm.Int32", TRUE, "interval")

EntitySet(proprties, requires_filter, searchable, topable, pageable) ==
    [name |-> "E", proprties |-> proprties, requires_filter |-> requires_filter,
     searchable |-> searchable, topable |-> topable, pageable |-> pageable]

ExcludeFunctions(funcs) == [NoRestrictions EXCEPT !.none = FALSE, !.funcs = funcs]
ExcludeEntity(option_name) ==
    [NoRestrictions EXCEPT !.none = FALSE, !.entities[option_name] = {"E"}]
ExcludeProprties(names) == [NoRestrictions EXCEPT !.none = FALSE, !.proprties = names]

\* every string function but startswith is excluded
OnlyStartswith ==
    ExcludeFunctions(<<"substringof", "endswith", "length", "indexof", "replace",
                       "substring", "tolower", "toupper", "trim", "concat">>)

\* entity sets, restrictions, Part budgets and numbers of calls of the
\* generation runs
GenerationRuns ==
    {<<(<<PropA>>), OnlyStartswith, MaxParts, 1>>,
     <<(<<PropIsActive>>), NoRestrictions, MaxDeepParts, MaxCalls>>,
     <<(<<PropV>>), NoRestrictions, MaxFuncParts, MaxCalls>>,
     <<(<<PropD, PropM>>), NoRestrictions, MaxFuncParts, 1>>,
     <<(<<PropA>>), ExcludeFunctions(<<"concat">>), MaxFuncParts, MaxCalls>>,
     <<(<<PropD, PropM>>), ExcludeFunctions(<<"day", "second", "round">>),
       MaxFuncParts, MaxCalls>>,
     <<(<<PropD>>), ExcludeFunctions(<<"day", "hour", "minute", "month",
                                       "second", "year">>), MaxFuncParts, MaxCalls>>,
     <<(<<PropA, PropD>>), ExcludeFunctions(<<"concat", "concat">>), MaxFuncParts,
       MaxCalls>>}

\* the state after QueryGroup(entity, restr) over the classes as defined
Constructed(entity, restr, parts_per_call, calls_per_run) ==
    LET qg == QueryGroup(entity, restr, ClassMethods)
    IN  /\ entity_set = entity
        /\ restrictions = restr
        /\ query_options_list = qg.list
        /\ query_filter_required = qg.required
        /\ fq_entity = qg.fq_entity
        /\ functions = qg.group
        /\ class_methods = qg.methods
        /\ ctor_error = qg.err
        /\ recursion_depth = 0
        /\ finalizing_groups = 0
        /\ right_part = FALSE
        /\ option = EmptyOption
        /\ groups_stack = <<>>
        /\ option_string = <<>>
        /\ pc = "idle"
        /\ frames = <<>>
        /\ outcome = ""
        /\ budget = parts_per_call
        /\ calls = 0
        /\ spare = 0
        /\ nextId = 1
        /\ mutated = 0
        /\ builder = NoBuilder
        /\ results = <<>>
        /\ lastOptions = [called |-> FALSE, options |-> <<>>]
        /\ option_obj = 0
        /\ kept = <<>>
        /\ heap = NoObjects
        /\ calls_wanted = calls_per_run

Init ==
    /\ \E run \in GenerationRuns :
          Constructed(EntitySet(run[1], FALSE, TRUE, TRUE, TRUE), run[2], run[3],
                      run[4])
    /\ caller_keeps = FALSE

GenerateStep ==
    \/ Generate
    \/ NotermExpression
    \/ NotermParent
    \/ GenerateChild
    \/ GenerateChildGroup
    \/ GenerateChildGroupClose
    \/ NotermChild
    \/ NotermLogical
    \/ NotermChildReturn
    \/ GenerateElement
    \/ GenerateReturn

Next ==
    \/ GenerateStep
    \/ NewBuilder
    \/ Build

Spec == Init /\ [][Next]_vars

\* generation, then edits of the returned graph, then rendering
InitMut ==
    /\ Constructed(EntitySet(<<PropA>>, FALSE, TRUE, TRUE, TRUE), OnlyStartswith,
                   MaxParts, 1)
    /\ caller_keeps = FALSE

NextMut ==
    \/ GenerateStep
    \/ DeleteNode
    \/ RemoveLink
    \/ LastPartSetter
    \/ LastLogicalSetter
    \/ AddNode
    \/ ReverseLogicals
    \/ NewBuilder
    \/ Build

SpecMut == InitMut /\ [][NextMut]_vars

\* generation and rendering of graphs with groups nested in groups
InitNest ==
    /\ Constructed(EntitySet(<<PropA>>, FALSE, TRUE, TRUE, TRUE), OnlyStartswith,
                   MaxNestParts, 1)
    /\ caller_keeps = FALSE

NextNest ==
    \/ GenerateStep
    \/ NewBuilder
    \/ Build

SpecNest == InitNest /\ [][NextNest]_vars

\* generation alone: returned graphs, and calls that reserve Parts enough
\* for groups nested beyond the limit
DeepRuns ==
    {<<(<<PropA>>), OnlyStartswith, MaxNestParts>>,
     <<(<<PropIsActive>>), NoRestrictions, MaxDeepParts>>}

InitDeep ==
    /\ \E run \in DeepRuns :
          Constructed(EntitySet(run[1], FALSE, TRUE, TRUE, TRUE), run[2], run[3], 1)
    /\ caller_keeps = FALSE

NextDeep == GenerateStep

SpecDeep == InitDeep /\ [][NextDeep]_vars

\* entity sets with excluded and with non-filterable properties
ProprtyRuns ==
    {<<(<<PropN, PropX>>), NoRestrictions, MaxFuncParts>>,
     <<(<<PropX>>), NoRestrictions, MaxFuncParts>>,
     <<(<<PropIsActive>>), NoRestrictions, MaxPropParts>>,
     <<(<<PropA, PropY>>), NoRestrictions, MaxFuncParts>>,
     <<(<<PropA, PropY>>), ExcludeFunctions(<<"concat">>), MaxFuncParts>>,
     <<(<<PropN, PropK>>), ExcludeProprties({"K"}), MaxFuncParts>>,
     <<(<<PropA, PropB>>), [OnlyStartswith EXCEPT !.proprties = {"B"}],
       MaxPropParts>>,
     <<(<<PropA, PropB>>), ExcludeProprties({"B"}), MaxFuncParts>>}

InitProprties ==
    /\ \E run \in ProprtyRuns :
          Constructed(EntitySet(run[1], FALSE, TRUE, TRUE, TRUE), run[2], run[3],
                      MaxCalls)
    /\ caller_keeps = FALSE

NextProprties == GenerateStep

SpecProprties == InitProprties /\ [][NextProprties]_vars

\* a caller with a variable in which it stores some of the graphs it is
\* returned, each in place of the one stored before
CallRuns ==
    {<<(<<PropA>>), OnlyStartswith, MaxParts>>,
     <<(<<PropIsActive>>), NoRestrictions, MaxDeepParts>>}

InitCalls ==
    /\ \E run \in CallRuns :
          Constructed(EntitySet(run[1], FALSE, TRUE, TRUE, TRUE), run[2], run[3],
                      MaxCalls)
    /\ caller_keeps = TRUE

NextCalls == GenerateStep

SpecCalls == InitCalls /\ [][NextCalls]_vars

\* query groups over every combination of capabilities and restrictions
InitQG ==
    \E proprties \in {<<>>, <<PropN>>, <<PropX>>, <<PropN, PropX>>} :
    \E flags \in [1..4 -> BOOLEAN] :
    \E restr \in {NoRestrictions, ExcludeEntity(FILTER), ExcludeEntity(TOP),
                  ExcludeProprties({"N"}), ExcludeFunctions(<<"day">>)} :
        /\ Constructed(EntitySet(proprties, flags[1], flags[2], flags[3], flags[4]),
                       restr, 0, 0)
        /\ caller_keeps = FALSE

NextQG == RandomOptions

SpecQG == InitQG /\ [][NextQG]_vars

----------------------------------------------------------------------------
(* Properties of QueryGroup.random_options, under SpecQG *)

Count(seq, x) == Cardinality({i \in 1..Len(seq) : seq[i] = x})

\* C1: for a query group whose entity set requires a filter and whose filter
\* option was created, every list returned by random_options() contains the
\* filter option exactly once.
MandatoryFilterExactlyOnce ==
    (lastOptions.called /\ entity_set.requires_filter
        /\ query_filter_required # <<>>)
    => Count(lastOptions.options, FILTER) = 1

\* C2: random_options() returns the mandatory options followed by a subset
\* of the N optional options: every optional option at most once, and
\* between 0 and N optional options in the result.
MandatoryThenOptionalSubset ==
    lastOptions.called =>
        LET returned == lastOptions.options
            mandatory == Len(query_filter_required)
        IN  /\ Len(returned) >= mandatory
            /\ SubSeq(returned, 1, mandatory) = query_filter_required
            /\ \A o \in Range(query_options_list) : Count(returned, o) <= 1
            /\ Len(returned) - mandatory \in 0..Len(query_options_list)

----------------------------------------------------------------------------
(* Properties of rendering an edited graph, under SpecMut *)

\* two Parts joined by one Logical, after the second Part was removed from
\* the Part collection and the Logical's right link deleted
SecondPartAndRightLinkRemoved ==
    /\ pc = "done"
    /\ mutated = 2
    /\ Len(option.parts) = 1
    /\ Len(option.logicals) = 1
    /\ option.groups = <<>>
    /\ option.parts[1].right_id = option.logicals[1].id
    /\ option.logicals[1].left_id = option.parts[1].id
    /\ option.logicals[1].right_id = Absent

\* C3: for two Parts joined by one Logical, once the second Part is removed
\* and the Logical's right link deleted (the Logical stays), build() ends in
\* an error; it never returns a string.
DanglingLogicalIsAnError ==
    SecondPartAndRightLinkRemoved =>
        \A i \in 1..Len(results) :
            (results[i].mutated = 2 /\ results[i].call = 1)
            => results[i].err # ""

\* C4: whenever build() follows an id that resolves to no Part, Group or
\* Logical of the graph, the call ends in the dedicated unrenderable-graph
\* error and returns no string.
UnresolvedIdIsUnrenderableGraphError ==
    \A i \in 1..Len(results) :
        results[i].missing # Absent
        => (results[i].err = "UnrenderableGraphError" /\ results[i].s = <<>>)

----------------------------------------------------------------------------
(* Properties of FilterQuery.generate(), under Spec *)

\* the calls of _noterm_child that have not returned
ActiveChildCalls ==
    Cardinality({i \in 1..Len(frames) : frames[i] \in {"child1", "child2"}})

\* the calls of _generate_child_group that have not returned
OpenGroups == Cardinality({i \in 1..Len(frames) : frames[i] = "group"})

\* C5: the recursion of generate() is bounded by the recursion-depth counter
\* and RECURSION_LIMIT alone: no more than RECURSION_LIMIT calls of
\* _noterm_child are ever nested, so a graph holds no more than
\* RECURSION_LIMIT Logicals and RECURSION_LIMIT + 1 Parts.
RecursionBoundedByDepthCounter ==
    /\ ActiveChildCalls <= RECURSION_LIMIT
    /\ Len(option.logicals) <= RECURSION_LIMIT
    /\ Len(option.parts) <= RECURSION_LIMIT + 1

\* C7: with recursion limit RECURSION_LIMIT, at no point of generation does
\* the nesting stack hold more than RECURSION_LIMIT simultaneously open
\* groups, so no returned graph nests groups deeper than the limit.
GroupNestingWithinLimit ==
    /\ OpenGroups <= RECURSION_LIMIT
    /\ Len(groups_stack) <= RECURSION_LIMIT

\* C6: over an entity with at least one filterable property, of whatever
\* types and with nothing excluded, generate() never ends in an error: every
\* random choice is made over a non-empty candidate set.
GenerateNeverFails ==
    (HasFilterQuery /\ restrictions.none) => (pc # "error" /\ outcome \in {"", "ok"})

----------------------------------------------------------------------------
(* Properties of rendering a generated graph, under Spec *)

\* every prefix has at least as many '(' as ')' and the totals are equal;
\* a Part's name, operator and operand are tokens of their own
Balanced(s) ==
    LET opening == {i \in 1..Len(s) : s[i] = "("}
        closing == {i \in 1..Len(s) : s[i] = ")"}
    IN  /\ Cardinality(opening) = Cardinality(closing)
        /\ \A c \in closing :
               Cardinality({o \in opening : o < c})
                   >= Cardinality({x \in closing : x <= c})

\* C8: for every graph returned by generate() and not edited afterwards,
\* build() returns a non-empty string whose structural parentheses are
\* balanced.
RenderedNonEmptyAndBalanced ==
    \A i \in 1..Len(results) :
        results[i].mutated = 0
        => /\ results[i].err = ""
           /\ results[i].s # <<>>
           /\ Balanced(results[i].s)

\* a graph with a group was rendered
RenderedAGroup ==
    /\ option.groups # <<>>
    /\ \E i \in 1..Len(results) :
          results[i].mutated = 0 /\ "(" \in Range(results[i].s)

\* C9: every build() on an unedited graph, by the same builder again or by
\* a fresh one, returns the string the first build() returned, and leaves
\* the graph's Parts, Logicals and Groups as they were.
RenderingIsIdempotent ==
    [][(Len(results') = Len(results) + 1 /\ mutated = 0)
        => /\ option' = option
           /\ results'[Len(results')].err = ""
           /\ \A i \in 1..Len(results) :
                 results'[Len(results')].s = results[i].s]_vars

\* one builder rendered a graph with a group twice, then a fresh builder
\* rendered it
RenderedTwiceThenAfresh ==
    /\ option.groups # <<>>
    /\ Len(results) = 3
    /\ results[1].call = 1 /\ results[2].call = 2 /\ results[3].call = 1
    /\ mutated = 0

\* the call texts of function fn over the properties of the entity
CallTexts(fn) ==
    UNION {{c.generated_string : c \in function_call(cls, fn, fq_entity)}
              : cls \in {k \in DOMAIN ClassMethods : fn \in ClassMethods[k]}}

\* C10: once a FilterQuery is constructed with a function exclusion list, no
\* Part of any later generate() call has the call text of an excluded
\* function.
ExcludedFunctionNeverCalled ==
    (HasFilterQuery /\ option.parts # <<>>) =>
        LET excluded == UNION {CallTexts(fn) : fn \in Range(restrictions.funcs)}
        IN  \A i \in 1..Len(option.parts) : option.parts[i].name \notin excluded

\* a later generate() call, under an exclusion list, produced a function Part
LaterCallMadeAFunctionPart ==
    /\ restrictions.funcs # <<>>
    /\ pc = "done"
    /\ calls >= 2
    /\ \E i \in 1..Len(option.parts) : option.parts[i].func # ""

----------------------------------------------------------------------------
(* Properties of the schema view a FilterQuery generates over, under       *)
(* SpecProprties                                                           *)

\* C11: when the filter restriction of the entity set excludes property P,
\* no Part of any generated graph names P, neither as the plain operand
\* name nor as an argument property of a function call.
ExcludedProprtyNeverReferenced ==
    \A i \in 1..Len(option.parts) :
        \A P \in restrictions.proprties :
            /\ option.parts[i].name # P
            /\ P \notin Range(option.parts[i].proprties)

\* under an exclusion of B, a call over two properties was generated
TwoProprtyCallUnderExclusion ==
    /\ restrictions.proprties = {"B"}
    /\ pc = "done"
    /\ \E i \in 1..Len(option.parts) :
          option.parts[i].func = "concat" /\ Len(option.parts[i].proprties) = 2

\* the FilterQuery generates over the single boolean property IsActive
OverIsActiveOnly == fq_entity = <<PropIsActive>>

\* 'IsActive eq true' and 'IsActive eq false' as the generator concatenates them
IsActiveTexts ==
    {<<"IsActive", " ", "eq", " ", "true">>,
     <<"IsActive", " ", "eq", " ", "false">>}

\* C12: over an entity whose only filterable property is the boolean IsActive
\* with operator table {eq}, every generate() call yields a graph: it returns,
\* with exactly one Part, no Logical and no Group, and the expression is
\* exactly 'IsActive eq true' or 'IsActive eq false'.
SingleBooleanYieldsExactlyOnePart ==
    (OverIsActiveOnly /\ pc \in {"done", "error"}) =>
        /\ pc = "done"
        /\ Len(option.parts) = 1
        /\ option.logicals = <<>>
        /\ option.groups = <<>>
        /\ option_string \in IsActiveTexts

\* a FilterQuery was constructed over properties none of which is filterable,
\* and its function catalog is empty
NothingToGenerateFrom ==
    /\ fq_entity # <<>>
    /\ \A i \in 1..Len(fq_entity) : ~fq_entity[i].filterable
    /\ functions = <<>>

\* C13: a Filter Generator over an entity with no filterable properties and
\* no available built-in functions ends in a configuration error raised when
\* the FilterQuery is constructed; generate() is never left with a result or
\* with a later failure.
NothingToGenerateIsAConstructionError ==
    NothingToGenerateFrom => (ctor_error # "" /\ pc \notin {"done", "error"})

----------------------------------------------------------------------------
(* Properties of the links of a returned graph, under SpecDeep             *)

\* the id and the two link fields of every Part and Group of a graph
NodeLinks(opt) ==
    {[id |-> opt.parts[i].id, left_id |-> opt.parts[i].left_id,
      right_id |-> opt.parts[i].right_id] : i \in 1..Len(opt.parts)}
    \cup
    {[id |-> opt.groups[i].id, left_id |-> opt.groups[i].left_id,
      right_id |-> opt.groups[i].right_id] : i \in 1..Len(opt.groups)}

LinksPointBack(opt) ==
    LET nodes == NodeLinks(opt)
        logicals == Range(opt.logicals)
    IN  /\ \A L \in logicals :
              /\ \E X \in nodes : X.id = L.left_id /\ X.right_id = L.id
              /\ \E Y \in nodes : Y.id = L.right_id /\ Y.left_id = L.id
        /\ \A n \in nodes :
              /\ n.left_id # Absent =>
                    \E L \in logicals : L.id = n.left_id /\ L.right_id = n.id
              /\ n.right_id # Absent =>
                    \E L \in logicals : L.id = n.right_id /\ L.left_id = n.id

\* C14: in every returned graph each Logical has a left_id and a right_id
\* that name an existing Part or Group, the node named by left_id has the
\* Logical as its right link and the node named by right_id has it as its
\* left link, and every link a Part or Group carries names a Logical that
\* points back at it.
ReturnedLinksAreConsistent == pc = "done" => LinksPointBack(option)

\* a returned graph holds a Group linked on both sides
ReturnedGroupLinkedOnBothSides ==
    /\ pc = "done"
    /\ \E i \in 1..Len(option.groups) :
          option.groups[i].left_id # Absent /\ option.groups[i].right_id # Absent

----------------------------------------------------------------------------
(* Properties of the 'logicals' list of a Group, under SpecDeep            *)

\* C15 as stated: in every state from Option.add_group() on, during generation
\* and in the returned graph, each Group lists at least one Logical.
GroupLogicalsNeverEmpty ==
    \A i \in 1..Len(option.groups) : option.groups[i].logicals # <<>>

\* the positions of option_string holding the token tok
PositionsOf(tok) == {i \in 1..Len(option_string) : option_string[i] = tok}

\* parentheses open before position i of option_string
DepthBefore(i) ==
    Cardinality({j \in PositionsOf("(") : j < i})
        - Cardinality({j \in PositionsOf(")") : j < i})

\* the position of the parenthesis the k-th Group created was opened with
OpenedAt(k) ==
    CHOOSE p \in PositionsOf("(") :
        Cardinality({j \in PositionsOf("(") : j < p}) = k - 1

\* for each pair of parentheses of option_string, in the order they open,
\* the ordinals of the connectives directly inside it; read from position i
\* on, with the open pairs in stack (innermost first), nconn connectives
\* read so far and the lists so far in acc
RECURSIVE ConnectivesByGroup(_, _, _, _)
ConnectivesByGroup(i, stack, nconn, acc) ==
    IF i > Len(option_string) THEN acc
    ELSE LET tok == option_string[i]
         IN  CASE tok = "(" ->
                    ConnectivesByGroup(i + 1, <<Len(acc) + 1>> \o stack, nconn,
                                       Append(acc, <<>>))
               [] tok = ")" ->
                    ConnectivesByGroup(i + 1, IF stack = <<>> THEN stack ELSE Tail(stack),
                                       nconn, acc)
               [] tok \in {"and", "or"} ->
                    ConnectivesByGroup(i + 1, stack, nconn + 1,
                        IF stack = <<>> THEN acc
                        ELSE [acc EXCEPT ![Head(stack)] = Append(@, nconn + 1)])
               [] OTHER -> ConnectivesByGroup(i + 1, stack, nconn, acc)

\* the Logical of the returned graph created for the n-th connective of
\* option_string: Logicals are created in the order of the connectives, and
\* generate() returns them reversed
LogicalAt(n) == option.logicals[Len(option.logicals) + 1 - n].id

\* the ids of the connectives directly inside each pair of parentheses, the
\* pairs in the order they open, the ids in creation order
DirectLogicals ==
    LET inside == ConnectivesByGroup(1, <<>>, 0, <<>>)
    IN  [k \in 1..Len(inside) |->
            [n \in 1..Len(inside[k]) |-> LogicalAt(inside[k][n])]]

\* C15 amended: in every returned graph each Group lists at least one
\* Logical, and the listed Logicals are exactly the connectives directly
\* inside that Group's parentheses, in creation order; during generation a
\* Group's list is empty from Option.add_group() until the first connective
\* inside its parentheses has received its right operand.
ReturnedGroupsListTheirConnectives ==
    pc = "done" =>
        LET direct == DirectLogicals
        IN  /\ Len(direct) = Len(option.groups)
            /\ \A k \in 1..Len(option.groups) :
                   /\ option.groups[k].logicals # <<>>
                   /\ option.groups[k].logicals = direct[k]

\* a returned graph with a Group of two connectives
ReturnedGroupOfTwoConnectives ==
    /\ pc = "done"
    /\ \E k \in 1..Len(option.groups) : Len(option.groups[k].logicals) >= 2

----------------------------------------------------------------------------
(* Generation against rendering, under SpecNest                            *)

\* C16: for every returned graph that was not mutated, build() returns
\* exactly the option_string the generator recorded for it.
BuildReturnsGeneratedString ==
    \A i \in 1..Len(results) :
        results[i].mutated = 0 =>
            results[i].err = "" /\ results[i].s = option_string

\* a graph with a Group nested in a Group was rendered
RenderedNestedGroups ==
    /\ pc = "done"
    /\ mutated = 0
    /\ results # <<>>
    /\ \E i \in PositionsOf("(") : DepthBefore(i) >= 1

\* build() has rendered the unmutated graph of the last generate() call, which
\* holds more than one Part
RenderedUnmutatedCompound ==
    /\ pc = "done"
    /\ mutated = 0
    /\ builder.exists /\ builder.calls >= 1
    /\ Len(option.parts) > 1

\* the rule of _check_last_logical was taken: the last entry of the reversed
\* Logical sequence is not among the Logicals the builder consumed
LastLogicalNotConsumed ==
    Last(option.logicals).id \notin Range(builder.used_logicals)

\* the first entry of the reversed Logical sequence belongs to a Group whose
\* parentheses lie inside the parentheses of another Group
FirstLogicalInNestedGroup ==
    /\ option.logicals[1].group_id # Absent
    /\ \E k \in 1..Len(option.groups) :
          /\ option.groups[k].id = option.logicals[1].group_id
          /\ DepthBefore(OpenedAt(k)) >= 1

\* C17 as stated: when an unmutated generated graph is rendered, the last
\* entry of the reversed Logical sequence is always among the consumed
\* Logicals after the walk from logicals[0], so the rule of
\* _check_last_logical is never taken.
LastLogicalAlwaysConsumed ==
    RenderedUnmutatedCompound => ~LastLogicalNotConsumed

\* C17 amended: when an unmutated generated graph is rendered, the rule of
\* _check_last_logical is taken exactly when the first entry of the reversed
\* Logical sequence belongs to a Group nested inside another Group; the walk
\* from that Group then leaves out the enclosing parentheses and the first
\* connective, the rule supplies them, and the rendered string equals the
\* generator's option_string.
LastLogicalRuleRestoresEnclosingGroup ==
    RenderedUnmutatedCompound =>
        /\ LastLogicalNotConsumed <=> FirstLogicalInNestedGroup
        /\ LastLogicalNotConsumed => builder.option_string = option_string

\* an unmutated graph was rendered through the rule of _check_last_logical
RenderedThroughLastLogicalRule ==
    RenderedUnmutatedCompound /\ LastLogicalNotConsumed

----------------------------------------------------------------------------
(* The function catalog against the property types                         *)

\* the functions the category of a property type is to expose
FunctionsOfType(typ) ==
    CASE typ = "Edm.String" -> StringFunctions
      [] typ = "Edm.Date" -> DateFunctions
      [] typ = "Edm.Decimal" -> MathFunctions
      [] OTHER -> {}

\* C18: every Part that calls a function over a property calls a function of
\* that property's type: round, floor or ceiling over an Edm.Decimal
\* property, a date function over an Edm.Date property, a string function
\* over an Edm.String property.
FunctionPartsMatchProprtyType ==
    \A i \in 1..Len(option.parts) :
        option.parts[i].func # "" =>
            \A j \in 1..Len(fq_entity) :
                fq_entity[j].name \in Range(option.parts[i].proprties) =>
                    option.parts[i].func \in FunctionsOfType(fq_entity[j].typ)

----------------------------------------------------------------------------
(* Properties that are not filterable                                      *)

\* C19: a property of the entity set with filterable false is never the
\* operand name of a Part nor an argument property of a function Part,
\* whether or not a restriction set was supplied.
PartsNameOnlyFilterableProprties ==
    \A i \in 1..Len(option.parts) :
        \A j \in 1..Len(entity_set.proprties) :
            ~entity_set.proprties[j].filterable =>
                /\ option.parts[i].name # entity_set.proprties[j].name
                /\ entity_set.proprties[j].name \notin Range(option.parts[i].proprties)

----------------------------------------------------------------------------
(* Successive generate() calls, under SpecCalls                            *)

\* what the Option object the caller holds contains now
GraphNow(i) ==
    IF kept[i].obj = option_obj THEN option ELSE heap[kept[i].obj]

\* the graph of the current call is another Option object than the graphs
\* returned by earlier calls, which are as they were returned.  The lists of
\* an Option are made by Option.__init__ and their nodes by add_part,
\* add_logical and add_group of that Option: a node is a node of one Option
EarlierGraphsUntouched ==
    \A i \in 1..Len(kept) :
        kept[i].call < calls =>
            /\ kept[i].obj # option_obj
            /\ GraphNow(i) = kept[i].option

\* a step that enters generate() leaves the generator's variables reset
StartsClean ==
    calls' = calls + 1 =>
        /\ recursion_depth' = 0
        /\ finalizing_groups' = 0
        /\ right_part' = FALSE
        /\ groups_stack' = <<>>
        /\ option_string' = <<>>
        /\ option' = EmptyOption
        /\ kept' = kept

====
